---- MODULE Spec2Model ----
(***************************************************************************)
(* A model of edward/models/models.py: the Variational container and the   *)
(* three model wrappers (PythonModel, PyMC3Model, StanModel).              *)
(*                                                                         *)
(* Python objects that can be shared (the list handed to Variational's     *)
(* constructor) live in a heap indexed by object identity, so that         *)
(* `self.layers = layers` and the in-place `self.layers += [layer]` act on *)
(* the object every holder sees.  A tf.py_func node is a record holding    *)
(* the inputs frozen at graph-construction time; executing it is a         *)
(* separate action that reads the adapter's fields as they are then.       *)
(***************************************************************************)
EXTENDS Integers, Sequences, FiniteSets, TLC

VARIABLES
  lists,      \* heap of Python list objects: list identity -> [live, items]
  vs,         \* Variational objects: identity -> [live, layers, agg]
  ret,        \* what the last call on a Variational did and returned
  py,         \* the PythonModel instance
  pyNodes,    \* py_func nodes returned by PythonModel.log_prob
  pyRun,      \* the last execution of a PythonModel node
  pm,         \* the PyMC3Model instance and the Theano shared variables of its model
  pmNodes,    \* py_func nodes returned by PyMC3Model.log_prob
  pmRun,      \* the last execution of a PyMC3Model node
  stan,       \* the StanModel instance
  stanNodes,  \* py_func nodes returned by StanModel.log_prob
  stanRun,    \* the last execution of a StanModel node
  stanHist    \* history of StanModel.log_prob calls (observation only)

vars == <<lists, vs, ret, py, pyNodes, pyRun, pm, pmNodes, pmRun,
          stan, stanNodes, stanRun, stanHist>>
varVars == <<lists, vs, ret>>
pyVars == <<py, pyNodes, pyRun>>
pmVars == <<pm, pmNodes, pmRun>>
stanVars == <<stan, stanNodes, stanRun, stanHist>>

\* Python None and a present value, for a field that is None until it is set.
None == <<>>
Some(x) == <<x>>

\* ------------------------------------------------------------------------
\* Generic helpers (Python built-ins)
\* ------------------------------------------------------------------------

RECURSIVE SumSeq(_)
\* Python sum() over a list of integers.
SumSeq(s) == IF s = <<>> THEN 0 ELSE Head(s) + SumSeq(Tail(s))

RECURSIVE ProdSeq(_)
\* Number of scalar elements an array of shape s holds.
ProdSeq(s) == IF s = <<>> THEN 1 ELSE Head(s) * ProdSeq(Tail(s))

\* Python all() over a list of booleans.
AllTrue(s) == \A i \in 1..Len(s) : s[i]

\* Python slice s[lo:hi] with 0-based bounds; out-of-range bounds are clipped.
PySlice(s, lo, hi) ==
  LET h == IF hi > Len(s) THEN Len(s) ELSE hi
  IN  IF lo >= h THEN <<>> ELSE SubSeq(s, lo + 1, h)

\* Python zip(a, b): pairs up to the shorter length.
PyZip(a, b) ==
  LET n == IF Len(a) < Len(b) THEN Len(a) ELSE Len(b)
  IN  [i \in 1..n |-> <<a[i], b[i]>>]

\* ------------------------------------------------------------------------
\* Variational
\* ------------------------------------------------------------------------

\* Largest number of layers a list may hold in the model.
MaxLayers == 3

\* Identities of the Variational objects and of the list objects: two
\* containers, and one list object that either may hold.
Composites == {1, 2}
ListIds == {1}

\* Layer objects handed to the container.  cls is the layer's class,
\* hasEntropy whether that class defines `entropy` in its own __dict__, w the
\* weight by which the layer's log_prob differs from the other layers'.
LayerObjects ==
  { [cls |-> "Normal", shape |-> <<1>>, n_vars |-> 1, n_params |-> 2,
     is_differentiable |-> TRUE, is_multivariate |-> FALSE,
     is_reparameterized |-> TRUE, hasEntropy |-> TRUE, w |-> 1],
    [cls |-> "Dirichlet", shape |-> <<2>>, n_vars |-> 2, n_params |-> 2,
     is_differentiable |-> TRUE, is_multivariate |-> TRUE,
     is_reparameterized |-> FALSE, hasEntropy |-> TRUE, w |-> 2],
    [cls |-> "PointMass", shape |-> <<1>>, n_vars |-> 1, n_params |-> 1,
     is_differentiable |-> FALSE, is_multivariate |-> FALSE,
     is_reparameterized |-> TRUE, hasEntropy |-> FALSE, w |-> 3] }

\* isinstance(layer, Normal)
IsNormalLayer(layer) == layer.cls = "Normal"

\* 'entropy' in layer.__class__.__dict__
DefinesEntropy(layer) == layer.hasEntropy

\* The aggregate fields the constructor's else-branch computes over a list.
Aggregates(ls) ==
  [ shape |-> [i \in 1..Len(ls) |-> ls[i].shape],
    n_vars |-> SumSeq([i \in 1..Len(ls) |-> ls[i].n_vars]),
    n_params |-> SumSeq([i \in 1..Len(ls) |-> ls[i].n_params]),
    is_differentiable |-> AllTrue([i \in 1..Len(ls) |-> ls[i].is_differentiable]),
    is_multivariate |-> [i \in 1..Len(ls) |-> ls[i].is_multivariate],
    is_reparameterized |-> AllTrue([i \in 1..Len(ls) |-> ls[i].is_reparameterized]),
    is_normal |-> AllTrue([i \in 1..Len(ls) |-> IsNormalLayer(ls[i])]),
    is_entropy |-> AllTrue([i \in 1..Len(ls) |-> DefinesEntropy(ls[i])]) ]

\* The aggregate fields the constructor's layers-is-None branch assigns.
EmptyAggregates ==
  [ shape |-> <<>>, n_vars |-> 0, n_params |-> 0, is_differentiable |-> TRUE,
    is_multivariate |-> <<>>, is_reparameterized |-> TRUE, is_normal |-> TRUE,
    is_entropy |-> TRUE ]

\* The aggregate fields after add(layer), from the fields a before it.
AddAggregates(a, layer) ==
  [ shape |-> Append(a.shape, layer.shape),
    n_vars |-> a.n_vars + layer.n_vars,
    n_params |-> a.n_params + layer.n_params,
    is_differentiable |-> a.is_differentiable /\ layer.is_differentiable,
    is_multivariate |-> Append(a.is_multivariate, layer.is_multivariate),
    is_reparameterized |-> a.is_reparameterized /\ layer.is_reparameterized,
    is_entropy |-> a.is_entropy /\ DefinesEntropy(layer),
    is_normal |-> a.is_normal /\ IsNormalLayer(layer) ]

\* A statement or call that returns nothing (an assignment, a constructor, add).
NoReturn == [op |-> "none"]

\* List identities not yet allocated.
FreeLists == {l \in ListIds : ~lists[l].live}

\* The layers a Variational object currently holds (the content of the list
\* object self.layers refers to).
LayersOf(c) == lists[vs[c].layers].items

\* The caller builds a list of layers: `ls = [l1, ..]`.
NewList(content) ==
  /\ ret = NoReturn
  /\ FreeLists # {}
  /\ LET l == CHOOSE x \in FreeLists : \A y \in FreeLists : x <= y
     IN  lists' = [lists EXCEPT ![l] = [live |-> TRUE, items |-> content]]
  /\ ret' = NoReturn
  /\ UNCHANGED vs
  /\ UNCHANGED <<pyVars, pmVars, stanVars>>

\* Variational() : layers is None, self.layers is a new empty list.
ConstructEmpty(c) ==
  /\ ret = NoReturn
  /\ ~vs[c].live
  /\ FreeLists # {}
  /\ LET l == CHOOSE x \in FreeLists : \A y \in FreeLists : x <= y
     IN  /\ lists' = [lists EXCEPT ![l] = [live |-> TRUE, items |-> <<>>]]
         /\ vs' = [vs EXCEPT ![c] = [live |-> TRUE, layers |-> l,
                                     agg |-> EmptyAggregates]]
  /\ ret' = NoReturn
  /\ UNCHANGED <<pyVars, pmVars, stanVars>>

\* Variational(layers) : self.layers is the very list object passed in, which
\* the caller, or another Variational, may hold too.
ConstructFrom(c, l) ==
  /\ ret = NoReturn
  /\ ~vs[c].live
  /\ lists[l].live
  /\ vs' = [vs EXCEPT ![c] = [live |-> TRUE, layers |-> l,
                              agg |-> Aggregates(lists[l].items)]]
  /\ ret' = NoReturn
  /\ UNCHANGED lists
  /\ UNCHANGED <<pyVars, pmVars, stanVars>>

\* Variational.add(layer): `self.layers += [layer]` extends the list object in
\* place; the other fields are updated from their own previous values.
Add(c, layer) ==
  /\ ret = NoReturn
  /\ vs[c].live
  /\ Len(LayersOf(c)) < MaxLayers
  /\ lists' = [lists EXCEPT ![vs[c].layers].items = Append(@, layer)]
  /\ vs' = [vs EXCEPT ![c].agg = AddAggregates(@, layer)]
  /\ ret' = NoReturn
  /\ UNCHANGED <<pyVars, pmVars, stanVars>>

\* Largest n passed to sample, largest batch size passed to log_prob.
MaxSamples == 2
MaxBatch == 2

\* A batch of S rows is the ramp 1..S shifted by one of these offsets (a row is
\* abstracted to one number).
RowOffsets == {0, 1}

\* A tensor holding a batch of rows, and a Python list of tensors.
Tensor(rows) == [kind |-> "tensor", rows |-> rows]
PyList(items) == [kind |-> "list", items |-> items]

\* Batches of the same size S, and the xs a caller passes for N layers.
BatchesOf(S) == {Tensor([s \in 1..S |-> s + o]) : o \in RowOffsets}
XsFor(N) ==
  IF N = 1 THEN UNION {BatchesOf(S) : S \in 1..MaxBatch}
  ELSE UNION {{PyList(x) : x \in [1..N -> BatchesOf(S)]} : S \in 1..MaxBatch}

\* layer.sample(n) on the layer at position pos: the batch that layer returns.
LayerSample(layer, pos, n) == [kind |-> "tensor", by |-> layer.cls, pos |-> pos, n |-> n]

\* layer.log_prob(x): one log-density per row of x.
LayerLogProb(layer, x) ==
  Tensor([s \in 1..Len(x.rows) |-> layer.w * x.rows[s] + layer.w])

\* The calls `[layer.sample(n) for layer in self.layers]` makes, in order.
SampleCalls(ls, n) == [i \in 1..Len(ls) |-> [pos |-> i, layer |-> ls[i], n |-> n]]

\* sample(n) without the single-layer unwrapping.
SampleReturnAlwaysList(ls, n) ==
  PyList([i \in 1..Len(ls) |-> LayerSample(ls[i], i, n)])

\* What Variational.sample(n) returns.
SampleReturn(ls, n) ==
  LET samples == [i \in 1..Len(ls) |-> LayerSample(ls[i], i, n)]
  IN  IF Len(samples) = 1 THEN samples[1] ELSE PyList(samples)

\* The loop indexing xs at its first batch for every layer.
XsAtFirst(xs, l) == xs.items[1]

\* The batch of xs the loop of log_prob hands to the layer at position l.
XsAt(xs, l) == xs.items[l]

RECURSIVE LogProbLoop(_, _, _)
\* log_prob after the first l iterations of `log_prob += layer.log_prob(xs[l])`,
\* starting from tf.zeros([n_samples]).
LogProbLoop(ls, xs, l) ==
  LET n_samples == Len(xs.items[1].rows)
  IN  IF l = 0 THEN [s \in 1..n_samples |-> 0]
      ELSE LET acc == LogProbLoop(ls, xs, l - 1)
               lp == LayerLogProb(ls[l], XsAt(xs, l)).rows
           IN  [s \in 1..n_samples |-> acc[s] + lp[s]]

\* What Variational.log_prob(xs) returns; xs[0] of an empty list raises.
LogProbReturn(ls, xs) ==
  IF Len(ls) = 1 THEN LayerLogProb(ls[1], xs)
  ELSE IF xs.items = <<>> THEN [kind |-> "IndexError"]
  ELSE Tensor(LogProbLoop(ls, xs, Len(ls)))

\* Variational.sample(n)
Sample(c, n) ==
  /\ ret = NoReturn
  /\ vs[c].live
  /\ ret' = [op |-> "sample", c |-> c, layers |-> LayersOf(c), arg |-> n,
             calls |-> SampleCalls(LayersOf(c), n),
             value |-> SampleReturn(LayersOf(c), n)]
  /\ UNCHANGED <<lists, vs>>
  /\ UNCHANGED <<pyVars, pmVars, stanVars>>

\* Variational.log_prob(xs)
LogProb(c) ==
  /\ ret = NoReturn
  /\ vs[c].live
  /\ \E xs \in XsFor(Len(LayersOf(c))) :
       ret' = [op |-> "log_prob", c |-> c, layers |-> LayersOf(c), arg |-> xs,
               calls |-> <<>>, value |-> LogProbReturn(LayersOf(c), xs)]
  /\ UNCHANGED <<lists, vs>>
  /\ UNCHANGED <<pyVars, pmVars, stanVars>>

\* The caller takes the value the last call returned; the next call follows.
TakeResult ==
  /\ ret # NoReturn
  /\ ret' = NoReturn
  /\ UNCHANGED <<lists, vs>>
  /\ UNCHANGED <<pyVars, pmVars, stanVars>>

InitVariational ==
  /\ lists = [l \in ListIds |-> [live |-> FALSE, items |-> <<>>]]
  /\ vs = [c \in Composites |-> [live |-> FALSE, layers |-> 0, agg |-> EmptyAggregates]]
  /\ ret = NoReturn

\* Lists of layers a caller builds before constructing a Variational.
CallerLists == UNION {[1..k -> LayerObjects] : k \in 0..2}

NextVariational ==
  \/ \E content \in CallerLists : NewList(content)
  \/ \E c \in Composites : ConstructEmpty(c)
  \/ \E c \in Composites, l \in ListIds : ConstructFrom(c, l)
  \/ \E c \in Composites, layer \in LayerObjects : Add(c, layer)
  \/ \E c \in Composites, n \in 1..MaxSamples : Sample(c, n)
  \/ \E c \in Composites : LogProb(c)
  \/ TakeResult

\* ------------------------------------------------------------------------
\* tf.py_func and the values that cross it
\* ------------------------------------------------------------------------

\* Largest number of log_prob calls (hence py_func nodes) on one PythonModel
\* or PyMC3Model.
MaxNodes == 2

\* Number of rows of a latent batch.
BatchRows == {1, 2}

\* The realization bound to key in the data dictionary of the call-th
\* log_prob call, and the latent batch zs of that call with S rows.
DataValue(key, call) == [kind |-> "data", key |-> key, call |-> call, rows |-> <<>>]
LatentBatch(call, S) ==
  [kind |-> "zs", key |-> "-", call |-> call, rows |-> [b \in 1..S |-> 10 * call + b]]

\* All orders in which up to n distinct keys of a key set can be inserted into a dict.
KeyOrders(keys, n) ==
  UNION {{o \in [1..k -> keys] : \A i, j \in 1..k : i # j => o[i] # o[j]} : k \in 0..n}

\* list(six.iterkeys(xs)) and the list of six.itervalues(xs), for the dict whose
\* keys were inserted in the order ks during the call-th log_prob call.
IterKeys(ks) == ks
IterValues(ks, call) == [i \in 1..Len(ks) |-> DataValue(ks[i], call)]

\* tf.py_func(func, inputs, ..): a graph node that holds the inputs; func is
\* not called until the node is executed.
PyFunc(inputs) == [outcome |-> "node", inputs |-> inputs]

\* args[:len(self.xs_keys)] and args[-1] of the host callback.
ArgsXsValues(keys, args) == PySlice(args, 0, Len(keys))
ArgsZs(args) == args[Len(args)]

\* {key: value for key, value in zip(keys, values)} as a set of items.
DictOfZip(keys, values) ==
  LET z == PyZip(keys, values) IN {z[i] : i \in 1..Len(z)}

\* The outcome of the last operation on an adapter before any was made.
NoRun == [op |-> "none"]

\* ------------------------------------------------------------------------
\* PythonModel
\* ------------------------------------------------------------------------

\* Most keys a data dictionary passed to PythonModel.log_prob holds.
MaxKeys == 2

\* Names of data structures a PythonModel's data dictionary may use.
PyKeys == {"x", "y", "t"}

\* A base hook that returns instead of raising.
BaseHookReturns(xs, zs) == [outcome |-> "ok", xs |-> xs, zs |-> zs]

\* PythonModel._py_log_prob : the base class raises.
BaseHook(xs, zs) == [outcome |-> "NotImplementedError", xs |-> xs, zs |-> zs]

\* A subclass's _py_log_prob : returns one log-density per row of zs.
SubclassHook(xs, zs) == [outcome |-> "ok", xs |-> xs, zs |-> zs]

\* PythonModel._py_log_prob_args(*args), run with the adapter's fields as
\* they are when the node executes.
PyLogProbArgs(self, args) ==
  LET keys == self.xs_keys[1]
      xs_values == ArgsXsValues(keys, args)
      zs == ArgsZs(args)
      xs == DictOfZip(keys, xs_values)
  IN  IF self.subclass THEN SubclassHook(xs, zs) ELSE BaseHook(xs, zs)

\* PythonModel.log_prob(xs, zs): stores the keys on the adapter and returns
\* the py_func node.  ks is the insertion order of xs, S the rows of zs.
PyLogProb(ks, S) ==
  /\ pyRun = NoRun
  /\ Len(pyNodes) < MaxNodes
  /\ LET call == Len(pyNodes) + 1
         inputs == IterValues(ks, call) \o <<LatentBatch(call, S)>>
         node == PyFunc(inputs)
     IN  /\ py' = [py EXCEPT !.xs_keys = Some(IterKeys(ks))]
         /\ pyNodes' = Append(pyNodes, [inputs |-> node.inputs, keys |-> ks])
         /\ pyRun' = [op |-> "log_prob", node |-> call, outcome |-> node.outcome]
  /\ UNCHANGED <<varVars, pmVars, stanVars>>

\* The graph runtime executes node i: the host callback runs now.
PyExec(i) ==
  /\ pyRun = NoRun
  /\ i \in 1..Len(pyNodes)
  /\ LET r == PyLogProbArgs(py, pyNodes[i].inputs)
     IN  pyRun' = [op |-> "exec", node |-> i, outcome |-> r.outcome,
                   xs |-> r.xs, zs |-> r.zs]
  /\ UNCHANGED <<py, pyNodes>>
  /\ UNCHANGED <<varVars, pmVars, stanVars>>

\* The caller takes the node, or the result or error of the execution.
PyTake ==
  /\ pyRun # NoRun
  /\ pyRun' = NoRun
  /\ UNCHANGED <<py, pyNodes>>
  /\ UNCHANGED <<varVars, pmVars, stanVars>>

\* PythonModel.__init__ (of the base class or of a subclass overriding the
\* hook); xs_keys does not exist until log_prob sets it.
InitPython(subclass) ==
  /\ py = [n_vars |-> None, xs_keys |-> None, subclass |-> subclass]
  /\ pyNodes = <<>>
  /\ pyRun = NoRun

NextPython ==
  \/ \E ks \in KeyOrders(PyKeys, MaxKeys), S \in BatchRows : PyLogProb(ks, S)
  \/ \E i \in 1..MaxNodes : PyExec(i)
  \/ PyTake

\* ------------------------------------------------------------------------
\* PyMC3Model
\* ------------------------------------------------------------------------

\* The Theano shared variables of the wrapped model (the keys of xs).
PmShared == {"X", "Y"}

\* self.logp(z): the flat-vector log-density closure, which reads the shared
\* variables as they are when it is called.
LogP(row, data) == [row |-> row, data |-> data]

\* The shared variables after `key.set_value(value)` for the pairs in order.
SetValues(shared, pairs) ==
  [k \in PmShared |->
     IF \E i \in 1..Len(pairs) : pairs[i][1] = k
     THEN LET last == CHOOSE i \in 1..Len(pairs) :
                        /\ pairs[i][1] = k
                        /\ \A j \in 1..Len(pairs) : pairs[j][1] = k => j <= i
          IN  pairs[last][2]
     ELSE shared[k]]

\* PyMC3Model._py_log_prob_args(*args): the calls it makes, in order, the
\* shared variables it leaves and the array lp it returns.
PmLogProbArgs(self, args) ==
  LET keys == self.xs_keys[1]
      xs_values == ArgsXsValues(keys, args)
      zs == ArgsZs(args)
      pairs == PyZip(keys, xs_values)
      shared == SetValues(self.shared, pairs)
      n_samples == Len(zs.rows)
      sets == [i \in 1..Len(pairs) |->
                 [ev |-> "set_value", key |-> pairs[i][1], value |-> pairs[i][2], row |-> 0]]
      evals == [s \in 1..n_samples |->
                 [ev |-> "logp", key |-> "-", value |-> zs, row |-> zs.rows[s]]]
  IN  [trace |-> sets \o evals, shared |-> shared,
       lp |-> [s \in 1..n_samples |-> LogP(zs.rows[s], shared)]]

\* PyMC3Model.log_prob(xs, zs)
PmLogProb(ks, S) ==
  /\ pmRun = NoRun
  /\ Len(pmNodes) < MaxNodes
  /\ LET call == Len(pmNodes) + 1
         inputs == IterValues(ks, call) \o <<LatentBatch(call, S)>>
         node == PyFunc(inputs)
     IN  /\ pm' = [pm EXCEPT !.xs_keys = Some(IterKeys(ks))]
         /\ pmNodes' = Append(pmNodes, [inputs |-> node.inputs, keys |-> ks])
         /\ pmRun' = [op |-> "log_prob", node |-> call, outcome |-> node.outcome]
  /\ UNCHANGED <<varVars, pyVars, stanVars>>

\* The graph runtime executes node i.
PmExec(i) ==
  /\ pmRun = NoRun
  /\ i \in 1..Len(pmNodes)
  /\ LET r == PmLogProbArgs(pm, pmNodes[i].inputs)
     IN  /\ pm' = [pm EXCEPT !.shared = r.shared]
         /\ pmRun' = [op |-> "exec", node |-> i, outcome |-> "ok",
                      trace |-> r.trace, lp |-> r.lp]
  /\ UNCHANGED pmNodes
  /\ UNCHANGED <<varVars, pyVars, stanVars>>

\* The caller takes the node or the result of the execution.
PmTake ==
  /\ pmRun # NoRun
  /\ pmRun' = NoRun
  /\ UNCHANGED <<pm, pmNodes>>
  /\ UNCHANGED <<varVars, pyVars, stanVars>>

\* PyMC3Model.__init__ ; the shared variables hold the values the model was
\* written with.
InitPyMC3 ==
  /\ pm = [n_vars |-> None, xs_keys |-> None,
           shared |-> [k \in PmShared |-> DataValue(k, 0)]]
  /\ pmNodes = <<>>
  /\ pmRun = NoRun

NextPyMC3 ==
  \/ \E ks \in KeyOrders(PmShared, Cardinality(PmShared)), S \in BatchRows : PmLogProb(ks, S)
  \/ \E i \in 1..MaxNodes : PmExec(i)
  \/ PmTake

\* ------------------------------------------------------------------------
\* StanModel
\* ------------------------------------------------------------------------

\* Longest latent row passed to StanModel.log_prob, the number of rows of a
\* batch passed to it, and the largest number of log_prob calls on one adapter.
MaxRowLen == 6
StanRows == 2
MaxCalls == 3

\* The parameter names and dimensions a model-fit handle declares
\* (modelfit.model_pars, modelfit.par_dims) for the Stan programs considered.
ParTables ==
  { [model_pars |-> <<"mu", "beta">>, par_dims |-> << <<>>, <<2>> >>],
    [model_pars |-> <<"W">>, par_dims |-> << <<2, 3>> >>],
    [model_pars |-> <<"tau", "L">>, par_dims |-> << <<0>>, <<2, 2>> >>] }

\* sum([sum(dim) if sum(dim) != 0 else 1 for dim in par_dims])
NVarsOf(par_dims) ==
  SumSeq([i \in 1..Len(par_dims) |->
            IF SumSeq(par_dims[i]) # 0 THEN SumSeq(par_dims[i]) ELSE 1])

\* log_prob initializing on every call.
NeedsInitializeAlways(self) == TRUE

\* `if not self.is_initialized:` in log_prob.
NeedsInitialize(self) == ~self.is_initialized

\* StanModel._initialize()
Initialize(self) ==
  [self EXCEPT !.is_initialized = TRUE,
               !.n_vars = Some(NVarsOf(self.modelfit[1].par_dims))]

\* A latent batch of StanRows rows of length D; row b holds 100*b+1 .. 100*b+D.
StanBatch(D) == [b \in 1..StanRows |-> [i \in 1..D |-> 100 * b + i]]

RECURSIVE Marshal(_, _, _, _, _)
\* The inner loop of _py_log_prob over zip(par_dims, model_pars) from entry k
\* on, with idx the loop's index into the row z: the entries of z_dict it adds,
\* or the error that ends it.  float(z[idx]) past the end raises IndexError;
\* reshape(dim) of a slice that does not hold prod(dim) elements raises ValueError.
Marshal(z, par_dims, model_pars, k, idx) ==
  IF k > Len(par_dims) \/ k > Len(model_pars) THEN [outcome |-> "ok", items |-> <<>>]
  ELSE
    LET dim == par_dims[k]
        par == model_pars[k]
        elems == SumSeq(dim)
    IN  IF elems = 0
        THEN IF idx >= Len(z) THEN [outcome |-> "IndexError", items |-> <<>>]
             ELSE LET rest == Marshal(z, par_dims, model_pars, k + 1, idx + 1)
                      item == [par |-> par, scalar |-> TRUE, lo |-> idx,
                               data |-> <<z[idx + 1]>>, shape |-> <<>>]
                  IN  [outcome |-> rest.outcome, items |-> <<item>> \o rest.items]
        ELSE LET chunk == PySlice(z, idx, idx + elems)
             IN  IF Len(chunk) # ProdSeq(dim) THEN [outcome |-> "ValueError", items |-> <<>>]
                 ELSE LET rest == Marshal(z, par_dims, model_pars, k + 1, idx + elems)
                          item == [par |-> par, scalar |-> FALSE, lo |-> idx,
                                   data |-> chunk, shape |-> dim]
                      IN  [outcome |-> rest.outcome, items |-> <<item>> \o rest.items]

\* StanModel._py_log_prob(zs): per row, the z_dict handed to unconstrain_pars;
\* the first row that raises ends the call with that error.
StanPyLogProb(self, zs) ==
  LET fit == self.modelfit[1]
      rows == [b \in 1..Len(zs) |-> Marshal(zs[b], fit.par_dims, fit.model_pars, 1, 0)]
      bad == {b \in 1..Len(zs) : rows[b].outcome # "ok"}
  IN  IF bad = {} THEN [outcome |-> "ok", z_dicts |-> [b \in 1..Len(zs) |-> rows[b].items]]
      ELSE LET b0 == CHOOSE b \in bad : \A c \in bad : b <= c
           IN  [outcome |-> rows[b0].outcome,
                z_dicts |-> [b \in 1..(b0 - 1) |-> rows[b].items]]

\* StanModel.log_prob(xs, zs): model.sampling returns a new model-fit handle,
\* whose declared parameters are table; n_vars is resolved if it never was.
StanLogProb(table, D) ==
  /\ stanRun = NoRun
  /\ Len(stanNodes) < MaxCalls
  /\ LET call == Len(stanNodes) + 1
         fit == [id |-> call, model_pars |-> table.model_pars, par_dims |-> table.par_dims]
         s1 == [stan EXCEPT !.modelfit = Some(fit)]
         init == NeedsInitialize(s1)
         s2 == IF init THEN Initialize(s1) ELSE s1
         node == PyFunc(<<StanBatch(D)>>)
     IN  /\ stan' = s2
         /\ stanNodes' = Append(stanNodes, [inputs |-> node.inputs])
         /\ stanRun' = [op |-> "log_prob", node |-> call, outcome |-> node.outcome]
         /\ stanHist' = [calls |-> stanHist.calls + 1,
                         resolved |-> IF init THEN Append(stanHist.resolved, fit)
                                      ELSE stanHist.resolved]
  /\ UNCHANGED <<varVars, pyVars, pmVars>>

\* The graph runtime executes node i with the adapter's current modelfit.
StanExec(i) ==
  /\ stanRun = NoRun
  /\ i \in 1..Len(stanNodes)
  /\ LET zs == stanNodes[i].inputs[1]
         r == StanPyLogProb(stan, zs)
     IN  stanRun' = [op |-> "exec", node |-> i, outcome |-> r.outcome,
                     fit |-> stan.modelfit[1], zs |-> zs, z_dicts |-> r.z_dicts]
  /\ UNCHANGED <<stan, stanNodes, stanHist>>
  /\ UNCHANGED <<varVars, pyVars, pmVars>>

\* The caller takes the node, or the result or error of the execution.
StanTake ==
  /\ stanRun # NoRun
  /\ stanRun' = NoRun
  /\ UNCHANGED <<stan, stanNodes, stanHist>>
  /\ UNCHANGED <<varVars, pyVars, pmVars>>

\* StanModel.__init__
InitStan ==
  /\ stan = [modelfit |-> None, is_initialized |-> FALSE, n_vars |-> None]
  /\ stanNodes = <<>>
  /\ stanRun = NoRun
  /\ stanHist = [calls |-> 0, resolved |-> <<>>]

NextStan ==
  \/ \E table \in ParTables, D \in 1..MaxRowLen : StanLogProb(table, D)
  \/ \E i \in 1..MaxCalls : StanExec(i)
  \/ StanTake

\* ------------------------------------------------------------------------
\* Specifications: one per class, the other objects left as constructed
\* ------------------------------------------------------------------------

Init ==
  /\ InitVariational
  /\ \E subclass \in BOOLEAN : InitPython(subclass)
  /\ InitPyMC3
  /\ InitStan

SpecVariational == Init /\ [][NextVariational]_vars
SpecPython == Init /\ [][NextPython]_vars
SpecPyMC3 == Init /\ [][NextPyMC3]_vars
SpecStan == Init /\ [][NextStan]_vars

\* ------------------------------------------------------------------------
\* Properties of Variational
\* ------------------------------------------------------------------------

\* C1: every constructed Variational's aggregate fields equal the values the
\* constructor would compute from scratch over its current layers.
C1_AggregatesMatchLayers ==
  \A c \in Composites : vs[c].live => vs[c].agg = Aggregates(LayersOf(c))

\* C2: is_differentiable, is_reparameterized and is_normal are true exactly
\* when every layer currently in the container is differentiable,
\* reparameterized, a Normal.
C2_FlagsIffEveryLayer ==
  \A c \in Composites : vs[c].live =>
    LET ls == LayersOf(c)
    IN  /\ vs[c].agg.is_differentiable <=> \A i \in 1..Len(ls) : ls[i].is_differentiable
        /\ vs[c].agg.is_reparameterized <=> \A i \in 1..Len(ls) : ls[i].is_reparameterized
        /\ vs[c].agg.is_normal <=> \A i \in 1..Len(ls) : ls[i].cls = "Normal"

\* C3: log_prob(xs) of a one-layer container is that layer's log_prob of xs
\* itself; for N >= 2 layers and N batches of S rows it is the vector of
\* length S whose entry s is the sum over the layers, in order, of entry s of
\* layer_i.log_prob(xs[i]).
C3_LogProbIsSumOverLayers ==
  ret.op = "log_prob" =>
    LET ls == ret.layers
        N == Len(ls)
    IN  /\ N = 1 => ret.value = LayerLogProb(ls[1], ret.arg)
        /\ N >= 2 =>
             LET S == Len(ret.arg.items[1].rows)
             IN  /\ ret.value.kind = "tensor"
                 /\ Len(ret.value.rows) = S
                 /\ \A s \in 1..S :
                      ret.value.rows[s] =
                        SumSeq([i \in 1..N |-> LayerLogProb(ls[i], ret.arg.items[i]).rows[s]])

\* A log_prob call on three layers whose batches differ and have two rows.
C3_Witness ==
  /\ ret.op = "log_prob"
  /\ Len(ret.layers) = 3
  /\ ret.layers[1] # ret.layers[2]
  /\ Len(ret.arg.items[1].rows) = 2
  /\ ret.arg.items[1] # ret.arg.items[2]
  /\ ret.arg.items[2] # ret.arg.items[3]

\* C4: sample(n) calls sample(n) once on every layer, in layer order; with
\* one layer it returns that layer's batch itself, with N >= 2 layers the
\* list of the N batches in layer order.
C4_SampleCallsEveryLayerInOrder ==
  ret.op = "sample" =>
    LET ls == ret.layers
        N == Len(ls)
    IN  /\ Len(ret.calls) = N
        /\ \A i \in 1..N : /\ ret.calls[i].pos = i
                           /\ ret.calls[i].layer = ls[i]
                           /\ ret.calls[i].n = ret.arg
        /\ N = 1 => ret.value = LayerSample(ls[1], 1, ret.arg)
        /\ N >= 2 => /\ ret.value.kind = "list"
                     /\ Len(ret.value.items) = N
                     /\ \A i \in 1..N : ret.value.items[i] = LayerSample(ls[i], i, ret.arg)

\* A sample(2) call on a container that holds exactly one layer and returned
\* that layer's batch.
C4_Witness ==
  /\ ret.op = "sample"
  /\ Len(ret.layers) = 1
  /\ Len(ret.calls) = 1
  /\ ret.value.kind = "tensor"
  /\ ret.arg = 2

\* ------------------------------------------------------------------------
\* Properties of PythonModel and PyMC3Model
\* ------------------------------------------------------------------------

\* The items of the dict passed to the log_prob call that created node i.
CreatorItems(nodes, i) ==
  {<<nodes[i].keys[j], DataValue(nodes[i].keys[j], i)>> : j \in 1..Len(nodes[i].keys)}

\* The latent batch passed to the log_prob call that created node i.
CreatorZs(nodes, i) == nodes[i].inputs[Len(nodes[i].inputs)]

\* C7: whenever a node is executed, the hook receives a data map with exactly
\* the keys, each bound to its value, of the xs of the call that created the
\* node, and that call's latent batch.
C7_HookGetsCreatorsData ==
  pyRun.op = "exec" =>
    /\ pyRun.xs = CreatorItems(pyNodes, pyRun.node)
    /\ pyRun.zs = CreatorZs(pyNodes, pyRun.node)

\* C8: on a PythonModel that does not override the hook, log_prob returns a
\* node without raising, executing a node raises NotImplementedError, and the
\* execution leaves the adapter's fields as they were.
C8_ErrorOnlyAtExecution ==
  /\ [](/\ pyRun.op = "log_prob" => pyRun.outcome = "node"
        /\ (pyRun.op = "exec" /\ ~py.subclass) => pyRun.outcome = "NotImplementedError")
  /\ [][pyRun'.op = "exec" => py' = py]_vars

\* An execution on the base class that raised, after two log_prob calls.
C8_Witness ==
  /\ ~py.subclass
  /\ pyRun.op = "exec"
  /\ pyRun.outcome = "NotImplementedError"
  /\ Len(pyNodes) = 2
  /\ py.xs_keys # None

\* C9: an execution of a PyMC3Model node assigns every key of the creating
\* call's xs its realization before the first density evaluation, then calls
\* the closure once per row in row order with no assignment in between, and
\* returns the closure's value per row.
C9_AssignsThenEvaluatesPerRow ==
  pmRun.op = "exec" =>
    LET tr == pmRun.trace
        zs == CreatorZs(pmNodes, pmRun.node)
        S == Len(zs.rows)
        items == CreatorItems(pmNodes, pmRun.node)
        nsets == Len(tr) - S
    IN  /\ nsets >= 0
        /\ \A it \in items : \E i \in 1..nsets :
             tr[i].ev = "set_value" /\ tr[i].key = it[1] /\ tr[i].value = it[2]
        /\ \A i \in 1..nsets : tr[i].ev = "set_value"
        /\ \A s \in 1..S : tr[nsets + s].ev = "logp" /\ tr[nsets + s].row = zs.rows[s]
        /\ Len(pmRun.lp) = S
        /\ \A s \in 1..S : pmRun.lp[s] = LogP(zs.rows[s], pm.shared)

\* ------------------------------------------------------------------------
\* Properties of StanModel
\* ------------------------------------------------------------------------

\* C5: n_vars is resolved exactly once, in the first log_prob call and from
\* the handle that call obtained; is_initialized never returns to false;
\* every call installs a new handle and later calls leave n_vars unchanged.
C5_ResolvedOnceFromFirstHandle ==
  /\ [](/\ stanHist.calls = 0 =>
             ~stan.is_initialized /\ stan.n_vars = None /\ stan.modelfit = None
        /\ stanHist.calls >= 1 =>
             /\ stan.is_initialized
             /\ Len(stanHist.resolved) = 1
             /\ stanHist.resolved[1].id = 1
             /\ stan.n_vars = Some(NVarsOf(stanHist.resolved[1].par_dims))
             /\ stan.modelfit # None
             /\ stan.modelfit[1].id = stanHist.calls)
  /\ [][/\ stan.is_initialized => stan.is_initialized' /\ stan.n_vars' = stan.n_vars
        /\ stanHist'.calls # stanHist.calls => stan.modelfit' # stan.modelfit]_vars

\* A third log_prob call whose handle declares other parameters than the first.
C5_Witness ==
  /\ stanHist.calls = 3
  /\ stanRun.op = "log_prob"
  /\ stan.modelfit[1].par_dims # stanHist.resolved[1].par_dims
  /\ NVarsOf(stan.modelfit[1].par_dims) # NVarsOf(stanHist.resolved[1].par_dims)

\* The number of scalar elements the parameters of a dimension table hold, a
\* parameter with a zero-size dimension spec counting as one scalar.
FlattenedSize(par_dims) ==
  SumSeq([i \in 1..Len(par_dims) |->
            IF ProdSeq(par_dims[i]) = 0 THEN 1 ELSE ProdSeq(par_dims[i])])

\* C6: after the first log_prob call n_vars is the sum over the declared
\* parameters of each one's number of scalar elements.
C6_NVarsIsFlattenedSize ==
  stan.is_initialized =>
    stan.n_vars = Some(FlattenedSize(stanHist.resolved[1].par_dims))

\* C10: executing a node whose rows have length n_vars, with a handle that
\* declares the parameters n_vars was resolved from, gives every parameter,
\* in declared order, a contiguous slice of the row; the slices cover
\* positions 0..n_vars-1 and each holds as many elements as the parameter's
\* dimension tuple (one if the product of the dimensions is 0).
C10_SlicesCoverRow ==
  ( /\ stanRun.op = "exec"
    /\ stanRun.fit.par_dims = stanHist.resolved[1].par_dims
    /\ \A b \in 1..Len(stanRun.zs) : Some(Len(stanRun.zs[b])) = stan.n_vars ) =>
    /\ stanRun.outcome = "ok"
    /\ \A b \in 1..Len(stanRun.zs) :
         LET items == stanRun.z_dicts[b]
             dims == stanRun.fit.par_dims
             n == Len(dims)
         IN  /\ Len(items) = n
             /\ \A k \in 1..n :
                  /\ items[k].par = stanRun.fit.model_pars[k]
                  /\ items[k].lo = (IF k = 1 THEN 0
                                    ELSE items[k - 1].lo + Len(items[k - 1].data))
                  /\ Len(items[k].data) =
                       (IF ProdSeq(dims[k]) = 0 THEN 1 ELSE ProdSeq(dims[k]))
                  /\ ProdSeq(dims[k]) = 0 => items[k].scalar
             /\ n >= 1 => Some(items[n].lo + Len(items[n].data)) = stan.n_vars

====
